---------------------------- MODULE Spec2Model ----------------------------
(***************************************************************************)
(* Model of the gpio_button platform driver (src/gpio_button/gpio_button.c)*)
(* : the interrupt-to-event pipeline (button_isr, debounce_timer_callback, *)
(* gpio_button_read, gpio_button_poll), the led_status attribute           *)
(* (led_status_show, led_status_store) and the life cycle of the driver    *)
(* (gpio_probe, gpio_remove); and of the button poller that uses the       *)
(* driver (main and sigint_handler of src/button/button.c).                *)
(*                                                                         *)
(* Every C statement that touches shared state is one step, so that the    *)
(* interleavings of the hard-irq context, the timer soft-irq context and   *)
(* the process contexts of several readers and writers are all explored.   *)
(* Time is counted in jiffies, as the timer that the driver arms counts it.*)
(***************************************************************************)
EXTENDS Integers, Sequences, FiniteSets, TLC

(***************************************************************************)
(* Bounds of the model.                                                    *)
(***************************************************************************)
\* number of falling edges the environment produces on the sensor line
MaxEdges == 2
\* number of signals the environment sends to readers
MaxSignals == 1
\* length of the status-attribute inputs enumerated exhaustively
MaxLen == 3

(***************************************************************************)
(* Program constants.                                                      *)
(***************************************************************************)
\* the debounce delay handed to msecs_to_jiffies, in milliseconds
DEBOUNCE_MS == 50
\* CONFIG_HZ of the kernel build: timer ticks (jiffies) per second
HZ == 100
\* msecs_to_jiffies(m): m milliseconds in jiffies, rounded up
msecs_to_jiffies(m) == (m * HZ + 999) \div 1000
\* char local_buf[16]
LOCAL_BUF_SIZE == 16

\* processes that call read() on /dev/gpio_button
Readers == {"r1", "r2"}
\* the process that calls poll() on /dev/gpio_button
Pollers == {"p1"}

VARIABLES
    button_level,       \* logical level of the sensor line (0 = pressed)
    irq_pending,        \* a falling edge is latched and the handler has not run yet
    isr_pc,             \* position of button_isr
    debounce_active,    \* atomic_t debounce_active
    timer_pending,      \* debounce_timer is queued
    timer_left,         \* jiffies until debounce_timer expires
    elapsed,            \* jiffies since the edge handler armed the debounce from Idle
    cb_pc,              \* position of debounce_timer_callback
    button_event_flag,  \* atomic_t button_event_flag
    waitq,              \* readers with an entry on button_wait
    pollq,              \* pollers registered on button_wait by poll_wait
    rd_pc,              \* position of each gpio_button_read
    rd_intr,            \* __int of ___wait_event: prepare_to_wait_event saw a signal
    rd_ret,             \* what the last gpio_button_read returned
    task_state,         \* scheduler state of each reader
    sig_pending,        \* signal_pending() of each reader
    poll_ret,           \* what the last gpio_button_poll returned
    edges,              \* falling edges so far
    armings,            \* times button_isr armed the timer
    confirms,           \* completed runs of debounce_timer_callback
    sets,               \* times debounce_timer_callback set button_event_flag
    tokens,             \* '1' bytes delivered by gpio_button_read
    signals,            \* signals sent so far
    stale,              \* readers that cleared the flag with no press confirmed since
    took,               \* readers whose current read changed the flag from 1 to 0
    ulong_bits,         \* width of unsigned long in the kernel build
    text,               \* the text under test that a process writes to the attribute
    led_status,         \* static volatile int led_status
    led_line,           \* level driven on the output line
    wr_pc,              \* position of each led_status_store
    wr_val,             \* val of each led_status_store
    wr_arg,             \* led_status as read for the call of gpiod_set_value
    last_store,         \* the latest call of led_status_store and its outcome
    show_ret,           \* what the last led_status_show wrote to buf
    life_pc,            \* position of gpio_probe / gpio_remove
    acquired,           \* resources gpio_probe acquired, in the order it acquired them
    released,           \* resources released so far, in the order of their release
    app_pc,             \* position of main of the button poller
    keep_running,       \* static volatile sig_atomic_t keep_running
    current_led_state,  \* current_led_state of the button poller
    led_fd,             \* the poller holds the status endpoint open
    led_last,           \* the poller's latest call on the status endpoint
    retval              \* exit status of the button poller

lineVars == <<button_level, irq_pending, edges>>
isrVars == <<isr_pc, armings>>
timerVars == <<debounce_active, timer_pending, timer_left, elapsed>>
cbVars == <<cb_pc, confirms, sets>>
readVars == <<rd_pc, rd_intr, rd_ret, tokens>>
schedVars == <<waitq, task_state, sig_pending, signals>>
pollVars == <<pollq, poll_ret>>
flagVars == <<button_event_flag, stale, took>>
eventVars == <<lineVars, isrVars, timerVars, cbVars, readVars, schedVars, pollVars,
               flagVars>>

statusVars == <<ulong_bits, text, led_status, led_line, wr_pc, wr_val, wr_arg, last_store,
                show_ret>>

lifeVars == <<life_pc, acquired, released>>

appVars == <<app_pc, keep_running, current_led_state, led_fd, led_last, retval>>

vars == <<eventVars, statusVars, lifeVars, appVars>>

(***************************************************************************)
(* The resources of the driver, in the order gpio_probe acquires them:     *)
(* gpiod_get "button", gpiod_get "led", request_irq, alloc_chrdev_region,  *)
(* cdev_add, class_create, device_create of /dev/gpio_button,              *)
(* device_create of gpio_button_sysfs, device_create_file, timer_setup.    *)
(***************************************************************************)
AcquisitionOrder ==
    <<"button", "led", "irq", "region", "cdev", "class", "devnode", "sysfsdev",
      "attr", "timer">>

\* the elements of a sequence
Range(q) == {q[i] : i \in 1..Len(q)}

\* what the driver holds: acquired and not released since
Held == Range(acquired) \ Range(released)

\* button_isr is registered on the interrupt of the sensor line
IrqRegistered == "irq" \in Held

\* timer_setup(&debounce_timer, debounce_timer_callback, 0) was executed
TimerReady == "timer" \in Range(acquired)

(***************************************************************************)
(* State after module load and a successful gpio_probe.                    *)
(***************************************************************************)
InitEvent ==
    /\ button_level = 1
    /\ irq_pending = FALSE
    /\ isr_pc = "idle"
    /\ debounce_active = 0
    /\ timer_pending = FALSE
    /\ timer_left = 0
    /\ elapsed = 0
    /\ cb_pc = "idle"
    /\ button_event_flag = 0
    /\ waitq = {}
    /\ pollq = {}
    /\ rd_pc = [r \in Readers |-> "idle"]
    /\ rd_intr = [r \in Readers |-> FALSE]
    /\ rd_ret = [r \in Readers |-> "none"]
    /\ task_state = [r \in Readers |-> "RUNNING"]
    /\ sig_pending = [r \in Readers |-> FALSE]
    /\ poll_ret = [p \in Pollers |-> "none"]
    /\ edges = 0
    /\ armings = 0
    /\ confirms = 0
    /\ sets = 0
    /\ tokens = 0
    /\ signals = 0
    /\ stale = {}
    /\ took = {}



(***************************************************************************)
(* The sensor line.  The interrupt is requested with IRQF_TRIGGER_FALLING: *)
(* a 1 -> 0 transition latches the interrupt, a 0 -> 1 transition does not.*)
(* Before request_irq and after free_irq no edge reaches the driver.       *)
(***************************************************************************)
FallingEdge ==
    /\ button_level = 1
    /\ edges < MaxEdges
    /\ button_level' = 0
    /\ irq_pending' = IrqRegistered
    /\ edges' = edges + 1
    /\ UNCHANGED <<isrVars, timerVars, cbVars, readVars, schedVars, pollVars,
                   flagVars, statusVars, lifeVars, appVars>>

RisingEdge ==
    /\ button_level = 0
    /\ button_level' = 1
    /\ UNCHANGED <<irq_pending, edges, isrVars, timerVars, cbVars, readVars,
                   schedVars, pollVars, flagVars, statusVars, lifeVars, appVars>>

(***************************************************************************)
(* button_isr, the hard-irq handler.  One interrupt line never runs its    *)
(* handler twice at once, so there is one position.                        *)
(***************************************************************************)
\* button_isr without the test of debounce_active: every edge arms the timer
IsrCheckNoDebounce ==
    /\ irq_pending
    /\ isr_pc = "idle"
    /\ irq_pending' = FALSE
    /\ isr_pc' = "arm"
    /\ UNCHANGED <<button_level, edges, armings, timerVars, cbVars, readVars,
                   schedVars, pollVars, flagVars, statusVars, lifeVars, appVars>>

\* the handler is entered for a latched edge:
\* if (atomic_read(&debounce_active)) return IRQ_HANDLED;
IsrCheck ==
    /\ irq_pending
    /\ isr_pc = "idle"
    /\ irq_pending' = FALSE
    /\ isr_pc' = IF debounce_active # 0 THEN "idle" ELSE "arm"
    /\ UNCHANGED <<button_level, edges, armings, timerVars, cbVars, readVars,
                   schedVars, pollVars, flagVars, statusVars, lifeVars, appVars>>

\* the arming, were it to set the expiry one jiffy late
IsrArmLate ==
    /\ isr_pc = "arm"
    /\ debounce_active' = 1
    /\ timer_pending' = TimerReady
    /\ timer_left' = IF TimerReady THEN msecs_to_jiffies(DEBOUNCE_MS) + 1 ELSE timer_left
    /\ elapsed' = IF debounce_active = 0 THEN 0 ELSE elapsed
    /\ armings' = armings + 1
    /\ isr_pc' = "idle"
    /\ UNCHANGED <<lineVars, cbVars, readVars, schedVars, pollVars, flagVars, statusVars, lifeVars, appVars>>

\* atomic_set(&debounce_active, 1); mod_timer(&debounce_timer, jiffies + 50 ms);
\* mod_timer queues nothing for a timer whose function is still NULL, which is
\* what the static debounce_timer is before timer_setup (__mod_timer: "if
\* (!timer->function) goto out_unlock"; a debug-objects build puts a stub in
\* its place, which never runs debounce_timer_callback either).
IsrArm ==
    /\ isr_pc = "arm"
    /\ debounce_active' = 1
    /\ timer_pending' = TimerReady
    /\ timer_left' = IF TimerReady THEN msecs_to_jiffies(DEBOUNCE_MS) ELSE timer_left
    /\ elapsed' = IF debounce_active = 0 THEN 0 ELSE elapsed
    /\ armings' = armings + 1
    /\ isr_pc' = "idle"
    /\ UNCHANGED <<lineVars, cbVars, readVars, schedVars, pollVars, flagVars, statusVars, lifeVars, appVars>>

button_isr == IsrCheck \/ IsrArm

(***************************************************************************)
(* The kernel timer: a jiffy passes while the timer is queued.             *)
(***************************************************************************)
Tick ==
    /\ timer_pending
    /\ timer_left > 0
    /\ timer_left' = timer_left - 1
    /\ elapsed' = elapsed + 1
    /\ UNCHANGED <<debounce_active, timer_pending, lineVars, isrVars, cbVars,
                   readVars, schedVars, pollVars, flagVars, statusVars, lifeVars, appVars>>

(***************************************************************************)
(* debounce_timer_callback, run in soft-irq context when the timer expires *)
(***************************************************************************)
\* the timer expires, is taken off the timer wheel and its callback starts:
\* int button_state = gpiod_get_value(button_gpio); if (button_state == 0) ...
\* Once gpiod_put(button_gpio) has run, button_gpio dangles and the sample is
\* either level.
CbSample ==
    /\ timer_pending
    /\ timer_left = 0
    /\ cb_pc = "idle"
    /\ timer_pending' = FALSE
    /\ \E button_state \in (IF "button" \in Held THEN {button_level} ELSE {0, 1}) :
          cb_pc' = IF button_state = 0 THEN "set" ELSE "reset"
    /\ UNCHANGED <<debounce_active, timer_left, elapsed, confirms, sets, lineVars, isrVars,
                   readVars, schedVars, pollVars, flagVars, statusVars, lifeVars, appVars>>

\* atomic_set(&button_event_flag, 1);
CbSetFlag ==
    /\ cb_pc = "set"
    /\ button_event_flag' = 1
    /\ stale' = {}
    /\ sets' = sets + 1
    /\ UNCHANGED took
    /\ cb_pc' = "wake"
    /\ UNCHANGED <<confirms, lineVars, isrVars, timerVars, readVars, schedVars, pollVars,
                   statusVars, lifeVars, appVars>>

\* wake_up(&button_wait): every queued entry whose task sleeps is woken, and
\* autoremove_wake_function takes the entry of each task it woke off the queue.
Woken == {r \in waitq : task_state[r] = "INTERRUPTIBLE"}

CbWake ==
    /\ cb_pc = "wake"
    /\ task_state' = [r \in Readers |-> IF r \in Woken THEN "RUNNING" ELSE task_state[r]]
    /\ waitq' = waitq \ Woken
    /\ cb_pc' = "reset"
    /\ UNCHANGED <<confirms, sets, sig_pending, signals, lineVars, isrVars, timerVars,
                   readVars, pollVars, flagVars, statusVars, lifeVars, appVars>>

\* atomic_set(&debounce_active, 0);
CbReset ==
    /\ cb_pc = "reset"
    /\ debounce_active' = 0
    /\ confirms' = confirms + 1
    /\ cb_pc' = "idle"
    /\ UNCHANGED <<sets, timer_pending, timer_left, elapsed, lineVars, isrVars, readVars,
                   schedVars, pollVars, flagVars, statusVars, lifeVars, appVars>>

debounce_timer_callback == CbSample \/ CbSetFlag \/ CbWake \/ CbReset

(***************************************************************************)
(* gpio_button_read.  wait_event_interruptible(wq, cond) is                *)
(*   if (cond) goto out;                                                   *)
(*   for (;;) { __int = prepare_to_wait_event(); if (cond) break;          *)
(*              if (__int) return -ERESTARTSYS; schedule(); }              *)
(*   finish_wait(); out:                                                   *)
(***************************************************************************)
\* read(fd, buf, len) enters the driver and makes the
\* first test of atomic_read(&button_event_flag), before any queueing
ReadCall(r) ==
    /\ rd_pc[r] \in {"idle", "done"}
    /\ rd_ret' = [rd_ret EXCEPT ![r] = "none"]
    /\ rd_intr' = [rd_intr EXCEPT ![r] = FALSE]
    /\ rd_pc' = [rd_pc EXCEPT ![r] = IF button_event_flag # 0 THEN "clear" ELSE "prepare"]
    /\ took' = took \ {r}
    /\ UNCHANGED <<tokens, lineVars, isrVars, timerVars, cbVars, schedVars,
                   pollVars, button_event_flag, stale, statusVars, lifeVars, appVars>>

\* prepare_to_wait_event: with a signal pending the entry is unlinked and the
\* call reports -ERESTARTSYS; otherwise the entry is queued and the task state
\* set to TASK_INTERRUPTIBLE, both under the queue's lock.
ReadPrepare(r) ==
    /\ rd_pc[r] = "prepare"
    /\ IF sig_pending[r]
         THEN /\ waitq' = waitq \ {r}
              /\ rd_intr' = [rd_intr EXCEPT ![r] = TRUE]
              /\ UNCHANGED task_state
         ELSE /\ waitq' = waitq \cup {r}
              /\ rd_intr' = [rd_intr EXCEPT ![r] = FALSE]
              /\ task_state' = [task_state EXCEPT ![r] = "INTERRUPTIBLE"]
    /\ rd_pc' = [rd_pc EXCEPT ![r] = "cond"]
    /\ UNCHANGED <<rd_ret, tokens, sig_pending, signals, lineVars,
                   isrVars, timerVars, cbVars, pollVars, flagVars, statusVars, lifeVars, appVars>>

\* the test of atomic_read(&button_event_flag) inside the wait loop
ReadCond(r) ==
    /\ rd_pc[r] = "cond"
    /\ rd_pc' = [rd_pc EXCEPT ![r] =
                    IF button_event_flag # 0 THEN "finish"
                    ELSE IF rd_intr[r] THEN "intr" ELSE "schedule"]
    /\ UNCHANGED <<rd_intr, rd_ret, tokens, lineVars, isrVars,
                   timerVars, cbVars, schedVars, pollVars, flagVars, statusVars, lifeVars, appVars>>

\* schedule(): returns once the task is runnable again
ReadSchedule(r) ==
    /\ rd_pc[r] = "schedule"
    /\ task_state[r] = "RUNNING"
    /\ rd_pc' = [rd_pc EXCEPT ![r] = "prepare"]
    /\ UNCHANGED <<rd_intr, rd_ret, tokens, lineVars, isrVars,
                   timerVars, cbVars, schedVars, pollVars, flagVars, statusVars, lifeVars, appVars>>

\* finish_wait(): task state back to TASK_RUNNING, entry off the queue
ReadFinish(r) ==
    /\ rd_pc[r] = "finish"
    /\ task_state' = [task_state EXCEPT ![r] = "RUNNING"]
    /\ waitq' = waitq \ {r}
    /\ rd_pc' = [rd_pc EXCEPT ![r] = "clear"]
    /\ UNCHANGED <<rd_intr, rd_ret, tokens, sig_pending, signals,
                   lineVars, isrVars, timerVars, cbVars, pollVars, flagVars, statusVars, lifeVars, appVars>>

\* the interrupted return, were it to clear the flag on its way out
ReadInterruptedClears(r) ==
    /\ rd_pc[r] = "intr"
    /\ button_event_flag' = 0
    /\ took' = IF button_event_flag # 0 THEN took \cup {r} ELSE took
    /\ rd_ret' = [rd_ret EXCEPT ![r] = "ERESTARTSYS"]
    /\ sig_pending' = [sig_pending EXCEPT ![r] = FALSE]
    /\ rd_intr' = [rd_intr EXCEPT ![r] = FALSE]
    /\ rd_pc' = [rd_pc EXCEPT ![r] = "done"]
    /\ UNCHANGED <<tokens, waitq, task_state, signals, lineVars, isrVars, timerVars,
                   cbVars, pollVars, stale, statusVars, lifeVars, appVars>>

\* if (ret) return -ERESTARTSYS;  the signal is then handled on the way out
ReadInterrupted(r) ==
    /\ rd_pc[r] = "intr"
    /\ rd_ret' = [rd_ret EXCEPT ![r] = "ERESTARTSYS"]
    /\ sig_pending' = [sig_pending EXCEPT ![r] = FALSE]
    /\ rd_intr' = [rd_intr EXCEPT ![r] = FALSE]
    /\ rd_pc' = [rd_pc EXCEPT ![r] = "done"]
    /\ UNCHANGED <<tokens, waitq, task_state, signals, lineVars, isrVars, timerVars,
                   cbVars, pollVars, flagVars, statusVars, lifeVars, appVars>>

\* the read, were it to leave the flag set when it consumes the event
ReadClearForgets(r) ==
    /\ rd_pc[r] = "clear"
    /\ stale' = stale \cup {r}
    /\ rd_pc' = [rd_pc EXCEPT ![r] = "copy"]
    /\ UNCHANGED <<button_event_flag, took, rd_intr, rd_ret, tokens, lineVars, isrVars,
                   timerVars, cbVars, schedVars, pollVars, statusVars, lifeVars, appVars>>

\* atomic_set(&button_event_flag, 0);
ReadClear(r) ==
    /\ rd_pc[r] = "clear"
    /\ button_event_flag' = 0
    /\ stale' = stale \cup {r}
    /\ took' = IF button_event_flag # 0 THEN took \cup {r} ELSE took
    /\ rd_pc' = [rd_pc EXCEPT ![r] = "copy"]
    /\ UNCHANGED <<rd_intr, rd_ret, tokens, lineVars, isrVars, timerVars,
                   cbVars, schedVars, pollVars, statusVars, lifeVars, appVars>>

\* copy_to_user(buffer, &event_char, 1) succeeds when the caller's buffer is
\* writable: return sizeof(event_char).  A signal that arrived meanwhile is
\* handled on the way out.
ReadCopyOk(r) ==
    /\ rd_pc[r] = "copy"
    /\ rd_ret' = [rd_ret EXCEPT ![r] = "1"]
    /\ tokens' = tokens + 1
    /\ sig_pending' = [sig_pending EXCEPT ![r] = FALSE]
    /\ rd_pc' = [rd_pc EXCEPT ![r] = "done"]
    /\ UNCHANGED <<rd_intr, waitq, task_state, signals, lineVars, isrVars, timerVars,
                   cbVars, pollVars, flagVars, statusVars, lifeVars, appVars>>

\* copy_to_user fails when the caller's buffer is not writable: return -EFAULT
ReadCopyFault(r) ==
    /\ rd_pc[r] = "copy"
    /\ rd_ret' = [rd_ret EXCEPT ![r] = "EFAULT"]
    /\ sig_pending' = [sig_pending EXCEPT ![r] = FALSE]
    /\ rd_pc' = [rd_pc EXCEPT ![r] = "done"]
    /\ UNCHANGED <<rd_intr, tokens, waitq, task_state, signals, lineVars, isrVars,
                   timerVars, cbVars, pollVars, flagVars, statusVars, lifeVars, appVars>>

gpio_button_read(r) ==
    \/ ReadCall(r)
    \/ ReadPrepare(r)
    \/ ReadCond(r)
    \/ ReadSchedule(r)
    \/ ReadFinish(r)
    \/ ReadInterrupted(r)
    \/ ReadClear(r)
    \/ ReadCopyOk(r)
    \/ ReadCopyFault(r)

(***************************************************************************)
(* A signal sent to a reader that is inside the read: signal_wake_up makes *)
(* a task in TASK_INTERRUPTIBLE runnable.                                  *)
(***************************************************************************)
SignalDeliver(r) ==
    /\ signals < MaxSignals
    /\ rd_pc[r] \notin {"idle", "done"}
    /\ ~sig_pending[r]
    /\ sig_pending' = [sig_pending EXCEPT ![r] = TRUE]
    /\ task_state' = [task_state EXCEPT ![r] = "RUNNING"]
    /\ signals' = signals + 1
    /\ UNCHANGED <<waitq, lineVars, isrVars, timerVars, cbVars, readVars, pollVars,
                   flagVars, statusVars, lifeVars, appVars>>

(***************************************************************************)
(* gpio_button_poll                                                        *)
(***************************************************************************)
\* the readiness query, were it to consume the event it reports
PollConsumes(p) ==
    /\ pollq' = pollq \cup {p}
    /\ poll_ret' = [poll_ret EXCEPT ![p] = IF button_event_flag # 0 THEN "POLLIN" ELSE "0"]
    /\ button_event_flag' = 0
    /\ UNCHANGED <<lineVars, isrVars, timerVars, cbVars, readVars, schedVars, stale, took,
                   statusVars, lifeVars, appVars>>

\* poll_wait(file, &button_wait, wait);
\* return atomic_read(&button_event_flag) ? POLLIN : 0;
gpio_button_poll(p) ==
    /\ pollq' = pollq \cup {p}
    /\ poll_ret' = [poll_ret EXCEPT ![p] = IF button_event_flag # 0 THEN "POLLIN" ELSE "0"]
    /\ UNCHANGED <<lineVars, isrVars, timerVars, cbVars, readVars, schedVars,
                   flagVars, statusVars, lifeVars, appVars>>

(***************************************************************************)
(* The led_status attribute.  A string is a sequence of characters, each   *)
(* character a one-letter string; NUL stands for the byte '\0'.            *)
(***************************************************************************)
LF == "\n"
NUL == "NUL"
Digits == <<"0", "1", "2", "3", "4", "5", "6", "7", "8", "9">>
IsDigit(c) == \E i \in 1..10 : Digits[i] = c
DigitVal(c) == (CHOOSE i \in 1..10 : Digits[i] = c) - 1

\* processes that write the attribute
Writers == {"w1", "w2"}

\* the characters the enumerated inputs are made of
Alphabet == {"0", "1", "2", "+", "a", LF, NUL}
Rep(c, n) == [i \in 1..n |-> c]
\* inputs longer than MaxLen that are tried as well
LongInputs ==
    { <<"+", "1", LF, LF>>,
      <<"0", "0", "0", "1", LF>>,
      Rep("0", 14) \o <<"1">>,
      Rep("9", 15),
      <<"4", "2", "9", "4", "9", "6", "7", "2", "9", "5">>,
      <<"4", "2", "9", "4", "9", "6", "7", "2", "9", "6">>,
      <<"0", "4", "2", "9", "4", "9", "6", "7", "2", "9", "6", LF>>,
      Rep("0", 15) \o <<"1">>,
      <<"1">> \o Rep(LF, 15),
      Rep("a", 20) }
\* what a write() hands to led_status_store: sysfs passes on no empty write
Inputs == (UNION {[1..n -> Alphabet] : n \in 1..MaxLen}) \cup LongInputs

\* the C string held in a char array: the bytes before the first '\0'
CStr(s) ==
    LET nuls == {i \in 1..Len(s) : s[i] = NUL}
    IN IF nuls = {} THEN s
       ELSE SubSeq(s, 1, (CHOOSE i \in nuls : \A j \in nuls : i <= j) - 1)

\* if (local_buf[count - 1] == '\n') local_buf[count - 1] = '\0';
StripNewline(buf) ==
    IF buf[Len(buf)] = LF THEN [buf EXCEPT ![Len(buf)] = NUL] ELSE buf

\* a numeral without its leading zeros (the empty sequence is zero)
RECURSIVE Significant(_)
Significant(ds) ==
    IF ds # <<>> /\ ds[1] = "0" THEN Significant(Tail(ds)) ELSE ds

\* whether the numeral a is greater than the numeral b (neither has leading zeros)
Greater(a, b) ==
    \/ Len(a) > Len(b)
    \/ /\ Len(a) = Len(b)
       /\ \E i \in 1..Len(a) :
             /\ DigitVal(a[i]) > DigitVal(b[i])
             /\ \A j \in 1..(i - 1) : a[j] = b[j]

\* ULONG_MAX / ULLONG_MAX in decimal
UMax(bits) ==
    IF bits = 32 THEN <<"4", "2", "9", "4", "9", "6", "7", "2", "9", "5">>
    ELSE <<"1", "8", "4", "4", "6", "7", "4", "4", "0", "7",
           "3", "7", "0", "9", "5", "5", "1", "6", "1", "5">>

\* number of leading decimal digits of s, as _parse_integer consumes them
RECURSIVE LeadingDigits(_)
LeadingDigits(s) ==
    IF s # <<>> /\ IsDigit(s[1]) THEN 1 + LeadingDigits(Tail(s)) ELSE 0

\* kstrtoul(s, 10, &val): an optional '+', decimal digits, an optional single
\* '\n', then the end of the string; the value must fit unsigned long.
\* val is the numeral read, without leading zeros.
kstrtoul(s, bits) ==
    LET s1 == IF s # <<>> /\ s[1] = "+" THEN Tail(s) ELSE s
        rv == LeadingDigits(s1)
        val == Significant(SubSeq(s1, 1, rv))
        rest == SubSeq(s1, rv + 1, Len(s1))
        tail == IF rest # <<>> /\ rest[1] = LF THEN Tail(rest) ELSE rest
    IN IF Greater(val, UMax(64)) THEN [err |-> "ERANGE", val |-> <<>>]
       ELSE IF rv = 0 THEN [err |-> "EINVAL", val |-> <<>>]
       ELSE IF tail # <<>> THEN [err |-> "EINVAL", val |-> <<>>]
       ELSE IF Greater(val, UMax(bits)) THEN [err |-> "ERANGE", val |-> <<>>]
       ELSE [err |-> "OK", val |-> val]

\* the length test off by one: a 16-byte input passes
TooLongOffByOne(count) == count > LOCAL_BUF_SIZE

\* if (count >= sizeof(local_buf)) return -EINVAL;
TooLong(count) == count >= LOCAL_BUF_SIZE

\* the range test off by one: the value 2 passes
BadValueOffByOne(val) == val # <<>> /\ val # <<"1">> /\ val # <<"2">>

\* if (val != 0 && val != 1) return -EINVAL;
BadValue(val) == val # <<>> /\ val # <<"1">>

\* led_status_store up to "Set the LED status": the error it returns, whether
\* it got as far as parsing, and the value it goes on to store
Validate(buf, bits) ==
    IF TooLong(Len(buf))
      THEN [err |-> "EINVAL", parsed |-> FALSE, val |-> 0]
      ELSE LET k == kstrtoul(CStr(StripNewline(buf)), bits)
           IN IF k.err # "OK" THEN [err |-> k.err, parsed |-> TRUE, val |-> 0]
              ELSE IF BadValue(k.val) THEN [err |-> "EINVAL", parsed |-> TRUE, val |-> 0]
              ELSE [err |-> "OK", parsed |-> TRUE,
                    val |-> IF k.val = <<>> THEN 0 ELSE 1]

InitStatus ==
    /\ led_status = 0
    /\ led_line = 0
    /\ wr_pc = [w \in Writers |-> "idle"]
    /\ wr_val = [w \in Writers |-> 0]
    /\ wr_arg = [w \in Writers |-> 0]
    /\ last_store = [buf |-> <<>>, err |-> "none", parsed |-> FALSE]
    /\ show_ret = <<>>

\* gpio_probe has returned 0: everything is acquired, nothing released
InitRunning ==
    /\ life_pc = "running"
    /\ acquired = AcquisitionOrder
    /\ released = <<>>

\* the button poller is about to enter main
InitApp ==
    /\ app_pc = "sigaction"
    /\ keep_running = 1
    /\ current_led_state = 0
    /\ led_fd = FALSE
    /\ led_last = "none"
    /\ retval = "EXIT_SUCCESS"

\* a 64-bit build
Init == InitEvent /\ InitStatus /\ InitRunning /\ InitApp /\ ulong_bits = 64 /\ text = <<"1">>

\* either build, and any text under test
InitAnyText ==
    /\ InitEvent /\ InitStatus /\ InitRunning /\ InitApp
    /\ ulong_bits \in {32, 64}
    /\ text \in Inputs

\* the store, were it to switch the LED off whenever it rejects its input
StoreCallFailsOff(w, buf) ==
    LET v == Validate(buf, ulong_bits)
    IN /\ wr_pc[w] = "idle"
       /\ last_store' = [buf |-> buf, err |-> v.err, parsed |-> v.parsed]
       /\ IF v.err = "OK"
            THEN /\ wr_pc' = [wr_pc EXCEPT ![w] = "assign"]
                 /\ wr_val' = [wr_val EXCEPT ![w] = v.val]
                 /\ UNCHANGED <<led_status, led_line>>
            ELSE /\ led_status' = 0
                 /\ led_line' = 0
                 /\ UNCHANGED <<wr_pc, wr_val>>
       /\ UNCHANGED <<ulong_bits, text, wr_arg, show_ret, eventVars, lifeVars, appVars>>

\* write(fd, buf, count) reaches led_status_store, which validates the input
\* and returns at once when it rejects it
StoreCall(w, buf) ==
    LET v == Validate(buf, ulong_bits)
    IN /\ wr_pc[w] = "idle"
       /\ last_store' = [buf |-> buf, err |-> v.err, parsed |-> v.parsed]
       /\ IF v.err = "OK"
            THEN /\ wr_pc' = [wr_pc EXCEPT ![w] = "assign"]
                 /\ wr_val' = [wr_val EXCEPT ![w] = v.val]
            ELSE UNCHANGED <<wr_pc, wr_val>>
       /\ UNCHANGED <<ulong_bits, text, led_status, led_line, wr_arg, show_ret, eventVars, lifeVars, appVars>>

\* led_status = val;
StoreAssign(w) ==
    /\ wr_pc[w] = "assign"
    /\ led_status' = wr_val[w]
    /\ wr_pc' = [wr_pc EXCEPT ![w] = "load"]
    /\ UNCHANGED <<ulong_bits, text, led_line, wr_val, wr_arg, last_store, show_ret, eventVars, lifeVars, appVars>>

\* the argument of gpiod_set_value(led_gpio, led_status) is read from the volatile
StoreLoad(w) ==
    /\ wr_pc[w] = "load"
    /\ wr_arg' = [wr_arg EXCEPT ![w] = led_status]
    /\ wr_pc' = [wr_pc EXCEPT ![w] = "drive"]
    /\ UNCHANGED <<ulong_bits, text, led_status, led_line, wr_val, last_store, show_ret,
                   eventVars, lifeVars, appVars>>

\* gpiod_set_value drives the line; return count;
StoreDrive(w) ==
    /\ wr_pc[w] = "drive"
    /\ led_line' = IF wr_arg[w] # 0 THEN 1 ELSE 0
    /\ wr_pc' = [wr_pc EXCEPT ![w] = "idle"]
    /\ wr_val' = [wr_val EXCEPT ![w] = 0]
    /\ wr_arg' = [wr_arg EXCEPT ![w] = 0]
    /\ UNCHANGED <<ulong_bits, text, led_status, last_store, show_ret, eventVars, lifeVars, appVars>>

\* what a process writes: the text under test, or plain "0" or "1"
Written == {text, <<"0">>, <<"1">>}

led_status_store(w) ==
    \/ \E buf \in Written : StoreCall(w, buf)
    \/ StoreAssign(w)
    \/ StoreLoad(w)
    \/ StoreDrive(w)

\* sprintf "%d" of a non-negative int
RECURSIVE Decimal(_)
Decimal(n) ==
    IF n < 10 THEN <<Digits[n + 1]>> ELSE Decimal(n \div 10) \o <<Digits[(n % 10) + 1]>>

\* the read of the attribute without the line terminator
ShowNoNewline ==
    /\ show_ret' = Decimal(led_status)
    /\ UNCHANGED <<ulong_bits, text, led_status, led_line, wr_pc, wr_val, wr_arg,
                   last_store, eventVars, lifeVars, appVars>>

\* return sprintf(buf, "%d\n", led_status);
led_status_show ==
    /\ show_ret' = Decimal(led_status) \o <<LF>>
    /\ UNCHANGED <<ulong_bits, text, led_status, led_line, wr_pc, wr_val, wr_arg, last_store,
                   eventVars, lifeVars, appVars>>

(***************************************************************************)
(* gpio_probe.  Every call that can fail does so or not; life_pc is the    *)
(* call about to be made, or the label of the rollback chain reached.      *)
(***************************************************************************)
\* one acquisition: on success the resource is held and probe goes on, on
\* failure probe jumps to its label
ProbeAcquire(at, x, next, label) ==
    /\ life_pc = at
    /\ \E ok \in BOOLEAN :
          IF ok THEN /\ acquired' = Append(acquired, x)
                     /\ life_pc' = next
                ELSE /\ UNCHANGED acquired
                     /\ life_pc' = label
    /\ UNCHANGED <<released, eventVars, statusVars, appVars>>

\* one release call of the rollback chain or of gpio_remove
ReleaseStep(at, x, next) ==
    /\ life_pc = at
    /\ released' = Append(released, x)
    /\ life_pc' = next
    /\ UNCHANGED <<acquired, eventVars, statusVars, appVars>>

\* free_irq(irq_number, NULL): returns once no handler runs any more, and a
\* latched edge is dropped with the registration
FreeIrq(at, next) ==
    /\ life_pc = at
    /\ isr_pc = "idle"
    /\ released' = Append(released, "irq")
    /\ irq_pending' = FALSE
    /\ life_pc' = next
    /\ UNCHANGED <<acquired, button_level, edges, isrVars, timerVars, cbVars, readVars,
                   schedVars, pollVars, flagVars, statusVars, appVars>>

\* button_gpio = gpiod_get(dev, "button", GPIOD_IN); on failure return at once
ProbeButton == ProbeAcquire("probe_button", "button", "probe_led", "failed")

\* led_gpio = gpiod_get(dev, "led", GPIOD_OUT_LOW); on failure goto err_led
ProbeLed == ProbeAcquire("probe_led", "led", "probe_to_irq", "err_led")

\* irq_number = gpiod_to_irq(button_gpio); nothing is acquired;
\* on failure goto err_irq
ProbeToIrq ==
    /\ life_pc = "probe_to_irq"
    /\ \E ok \in BOOLEAN : life_pc' = IF ok THEN "probe_request_irq" ELSE "err_irq"
    /\ UNCHANGED <<acquired, released, eventVars, statusVars, appVars>>

\* request_irq(irq_number, button_isr, IRQF_TRIGGER_FALLING, ...);
\* on failure goto err_irq
ProbeRequestIrq == ProbeAcquire("probe_request_irq", "irq", "probe_region", "err_irq")

\* alloc_chrdev_region(&dev_num, 0, 1, DRIVER_NAME); on failure goto err_alloc
ProbeRegion == ProbeAcquire("probe_region", "region", "probe_cdev", "err_alloc")

\* cdev_init; cdev_add(&c_dev, dev_num, 1); on failure goto err_add
ProbeCdev == ProbeAcquire("probe_cdev", "cdev", "probe_class", "err_add")

\* cl = class_create(DRIVER_NAME); on failure goto err_class
ProbeClass == ProbeAcquire("probe_class", "class", "probe_devnode", "err_class")

\* device_create(cl, NULL, dev_num, NULL, "%s", DRIVER_NAME); its result is
\* not looked at: probe goes on whether the node exists or not
ProbeDevnode == ProbeAcquire("probe_devnode", "devnode", "probe_sysfsdev", "probe_sysfsdev")

\* sysfs_dev = device_create(cl, NULL, 0, NULL, "gpio_button_sysfs");
\* on failure goto err_sysfs_dev
ProbeSysfsDev == ProbeAcquire("probe_sysfsdev", "sysfsdev", "probe_attr", "err_sysfs_dev")

\* device_create_file(sysfs_dev, &dev_attr_led_status); on failure goto err_sysfs_attr
ProbeAttr == ProbeAcquire("probe_attr", "attr", "probe_timer", "err_sysfs_attr")

\* timer_setup(&debounce_timer, debounce_timer_callback, 0); return 0;
ProbeTimer ==
    /\ life_pc = "probe_timer"
    /\ acquired' = Append(acquired, "timer")
    /\ life_pc' = "running"
    /\ UNCHANGED <<released, eventVars, statusVars, appVars>>

\* err_sysfs_attr: device_destroy(cl, 0);
ErrSysfsAttr == ReleaseStep("err_sysfs_attr", "sysfsdev", "err_sysfs_dev")

\* err_sysfs_dev: device_destroy(cl, dev_num);
ErrSysfsDev == ReleaseStep("err_sysfs_dev", "devnode", "err_class")

\* err_class: cdev_del(&c_dev);
ErrClass == ReleaseStep("err_class", "cdev", "err_add")

\* err_add: unregister_chrdev_region(dev_num, 1);
ErrAdd == ReleaseStep("err_add", "region", "err_alloc")

\* err_alloc: free_irq(irq_number, NULL);
ErrAlloc == FreeIrq("err_alloc", "err_irq")

\* err_irq: gpiod_put(led_gpio);
ErrIrq == ReleaseStep("err_irq", "led", "err_led")

\* err_led: gpiod_put(button_gpio); return ret;
ErrLed == ReleaseStep("err_led", "button", "failed")

gpio_probe ==
    \/ ProbeButton
    \/ ProbeLed
    \/ ProbeToIrq
    \/ ProbeRequestIrq
    \/ ProbeRegion
    \/ ProbeCdev
    \/ ProbeClass
    \/ ProbeDevnode
    \/ ProbeSysfsDev
    \/ ProbeAttr
    \/ ProbeTimer
    \/ ErrSysfsAttr
    \/ ErrSysfsDev
    \/ ErrClass
    \/ ErrAdd
    \/ ErrAlloc
    \/ ErrIrq
    \/ ErrLed

(***************************************************************************)
(* gpio_remove, called for a bound (Running) driver.                       *)
(***************************************************************************)
\* device_remove_file(sysfs_dev, &dev_attr_led_status);
RemoveAttr == ReleaseStep("running", "attr", "remove_sysfsdev")

\* device_destroy(cl, 0);
RemoveSysfsDev == ReleaseStep("remove_sysfsdev", "sysfsdev", "remove_devnode")

\* device_destroy(cl, dev_num);
RemoveDevnode == ReleaseStep("remove_devnode", "devnode", "remove_class")

\* class_destroy(cl);
RemoveClass == ReleaseStep("remove_class", "class", "remove_cdev")

\* cdev_del(&c_dev);
RemoveCdev == ReleaseStep("remove_cdev", "cdev", "remove_region")

\* unregister_chrdev_region(dev_num, 1);
RemoveRegion == ReleaseStep("remove_region", "region", "remove_irq")

\* free_irq(irq_number, NULL);
RemoveIrq == FreeIrq("remove_irq", "remove_button")

\* gpiod_put(button_gpio);
RemoveButton == ReleaseStep("remove_button", "button", "remove_led")

\* gpiod_put(led_gpio); return 0;
RemoveLed == ReleaseStep("remove_led", "led", "removed")

gpio_remove ==
    \/ RemoveAttr
    \/ RemoveSysfsDev
    \/ RemoveDevnode
    \/ RemoveClass
    \/ RemoveCdev
    \/ RemoveRegion
    \/ RemoveIrq
    \/ RemoveButton
    \/ RemoveLed

\* the platform core is about to call gpio_probe
InitLife ==
    /\ InitEvent /\ InitStatus /\ InitApp
    /\ life_pc = "probe_button"
    /\ acquired = <<>>
    /\ released = <<>>
    /\ ulong_bits = 64
    /\ text = <<"1">>

(***************************************************************************)
(* The button poller, main of src/button/button.c.  It is the process "r1" *)
(* when it reads /dev/gpio_button; its reads and writes of led_status each *)
(* run led_status_show or led_status_store to the end, there being no      *)
(* other writer.  A system call on the status endpoint can fail before it  *)
(* reaches the driver, which is what the error branches of main are for.   *)
(***************************************************************************)
\* the value of a decimal numeral
RECURSIVE DecimalValue(_)
DecimalValue(ds) ==
    IF ds = <<>> THEN 0
    ELSE 10 * DecimalValue(SubSeq(ds, 1, Len(ds) - 1)) + DigitVal(ds[Len(ds)])

\* atoi(s): the value of the leading digits of s, 0 when there are none
atoi(s) == DecimalValue(SubSeq(s, 1, LeadingDigits(s)))

\* the poller leaves for the cleanup label with a failure status
AppFail ==
    /\ retval' = "EXIT_FAILURE"
    /\ app_pc' = "cleanup"

\* sigaction(SIGINT, &sa, NULL) with sa_flags = 0
AppSigaction ==
    /\ app_pc = "sigaction"
    /\ \E ok \in BOOLEAN :
          IF ok THEN app_pc' = "open_led" /\ UNCHANGED retval
                ELSE AppFail
    /\ UNCHANGED <<keep_running, current_led_state, led_fd, led_last, eventVars,
                   statusVars, lifeVars>>

\* led_fd = open(GPIO_LED_SYSFS_PATH, O_RDWR);
AppOpenLed ==
    /\ app_pc = "open_led"
    /\ \E ok \in BOOLEAN :
          IF ok THEN /\ led_fd' = TRUE
                     /\ led_last' = "open"
                     /\ app_pc' = "read_led"
                     /\ UNCHANGED retval
                ELSE /\ AppFail
                     /\ UNCHANGED <<led_fd, led_last>>
    /\ UNCHANGED <<keep_running, current_led_state, eventVars, statusVars, lifeVars>>

\* read(led_fd, led_value, sizeof(led_value)): the two bytes led_status_show
\* wrote; current_led_state = atoi(led_value);
AppReadLed ==
    /\ app_pc = "read_led"
    /\ led_last' = "read"
    /\ \E ok \in BOOLEAN :
          IF ok THEN /\ current_led_state' =
                            atoi(SubSeq(Decimal(led_status) \o <<LF>>, 1, 2))
                     /\ app_pc' = "open_button"
                     /\ UNCHANGED retval
                ELSE /\ AppFail
                     /\ UNCHANGED current_led_state
    /\ UNCHANGED <<keep_running, led_fd, eventVars, statusVars, lifeVars>>

\* button_fd = open(GPIO_BUTTON_DEVICE, O_RDONLY);
AppOpenButton ==
    /\ app_pc = "open_button"
    /\ \E ok \in BOOLEAN :
          IF ok THEN app_pc' = "test" /\ UNCHANGED retval
                ELSE AppFail
    /\ UNCHANGED <<keep_running, current_led_state, led_fd, led_last, eventVars,
                   statusVars, lifeVars>>

\* while (keep_running)
AppTest ==
    /\ app_pc = "test"
    /\ app_pc' = IF keep_running # 0 THEN "read" ELSE "cleanup"
    /\ UNCHANGED <<keep_running, current_led_state, led_fd, led_last, retval, eventVars,
                   statusVars, lifeVars>>

\* read(button_fd, &event_flag, 1) enters gpio_button_read
AppEnterRead ==
    /\ app_pc = "read"
    /\ rd_pc["r1"] = "idle"
    /\ ReadCall("r1")

\* the read returns to main.  A SIGINT sent meanwhile has had sigint_handler
\* run on the way out of the kernel; -ERESTARTSYS arrives as EINTR, there
\* being no SA_RESTART: break.  Another error: goto cleanup.
AppReadReturn ==
    /\ app_pc = "read"
    /\ rd_pc["r1"] = "done"
    /\ rd_pc' = [rd_pc EXCEPT !["r1"] = "idle"]
    /\ keep_running' = IF signals > 0 THEN 0 ELSE keep_running
    /\ CASE rd_ret["r1"] = "1" -> app_pc' = "toggle" /\ UNCHANGED retval
         [] rd_ret["r1"] = "ERESTARTSYS" -> app_pc' = "cleanup" /\ UNCHANGED retval
         [] OTHER -> AppFail
    /\ UNCHANGED <<current_led_state, led_fd, led_last, rd_intr, rd_ret, tokens,
                   lineVars, isrVars, timerVars, cbVars, schedVars, pollVars, flagVars,
                   statusVars, lifeVars>>

\* current_led_state = !current_led_state; snprintf(led_value, 2, "%d", ...);
AppToggle ==
    /\ app_pc = "toggle"
    /\ current_led_state' = IF current_led_state = 0 THEN 1 ELSE 0
    /\ app_pc' = "lseek"
    /\ UNCHANGED <<keep_running, led_fd, led_last, retval, eventVars, statusVars, lifeVars>>

\* lseek(led_fd, 0, SEEK_SET)
AppLseek ==
    /\ app_pc = "lseek"
    /\ led_last' = "lseek"
    /\ \E ok \in BOOLEAN :
          IF ok THEN app_pc' = "write" /\ UNCHANGED retval
                ELSE AppFail
    /\ UNCHANGED <<keep_running, current_led_state, led_fd, eventVars, statusVars, lifeVars>>

\* write(led_fd, buf, 1) that reaches the driver: led_status_store from its
\* first to its last statement
AppStore(buf) ==
    LET v == Validate(buf, ulong_bits)
    IN /\ last_store' = [buf |-> buf, err |-> v.err, parsed |-> v.parsed]
       /\ IF v.err = "OK"
            THEN /\ led_status' = v.val
                 /\ led_line' = IF v.val # 0 THEN 1 ELSE 0
            ELSE UNCHANGED <<led_status, led_line>>
       /\ UNCHANGED <<ulong_bits, text, wr_pc, wr_val, wr_arg, show_ret>>

\* write(led_fd, led_value, 1): the first byte of the decimal of the new state
AppWrite ==
    /\ app_pc = "write"
    /\ \E ok \in BOOLEAN :
          IF ok THEN /\ AppStore(SubSeq(Decimal(current_led_state), 1, 1))
                     /\ led_last' = IF current_led_state = 0 THEN "write0" ELSE "write1"
                     /\ app_pc' = "test"
                     /\ UNCHANGED retval
                ELSE /\ AppFail
                     /\ led_last' = "write_failed"
                     /\ UNCHANGED statusVars
    /\ UNCHANGED <<keep_running, current_led_state, led_fd, eventVars, lifeVars>>

\* cleanup: if (led_fd >= 0) { lseek(led_fd, 0, SEEK_SET); ...
AppCleanup ==
    /\ app_pc = "cleanup"
    /\ IF led_fd THEN app_pc' = "cleanup_write" /\ led_last' = "lseek"
                 ELSE app_pc' = "exited" /\ UNCHANGED led_last
    /\ UNCHANGED <<keep_running, current_led_state, led_fd, retval, eventVars, statusVars,
                   lifeVars>>

\* the cleanup, were it to close the endpoint without the write
AppCleanupNoWrite ==
    /\ app_pc = "cleanup_write"
    /\ app_pc' = "cleanup_close"
    /\ UNCHANGED <<keep_running, current_led_state, led_fd, led_last, retval, eventVars,
                   statusVars, lifeVars>>

\* write(led_fd, "0", 1); the result is not looked at
AppCleanupWrite ==
    /\ app_pc = "cleanup_write"
    /\ \E ok \in BOOLEAN :
          IF ok THEN /\ AppStore(<<"0">>)
                     /\ led_last' = "write0"
                ELSE /\ led_last' = "write0_failed"
                     /\ UNCHANGED statusVars
    /\ app_pc' = "cleanup_close"
    /\ UNCHANGED <<keep_running, current_led_state, led_fd, retval, eventVars, lifeVars>>

\* close(led_fd); close(button_fd); return retval;
AppCleanupClose ==
    /\ app_pc = "cleanup_close"
    /\ led_fd' = FALSE
    /\ app_pc' = "exited"
    /\ UNCHANGED <<keep_running, current_led_state, led_last, retval, eventVars,
                   statusVars, lifeVars>>

main ==
    \/ AppSigaction
    \/ AppOpenLed
    \/ AppReadLed
    \/ AppOpenButton
    \/ AppTest
    \/ AppEnterRead
    \/ AppReadReturn
    \/ AppToggle
    \/ AppLseek
    \/ AppWrite
    \/ AppCleanup
    \/ AppCleanupWrite
    \/ AppCleanupClose

\* SIGINT sent while the poller runs in user mode, once its handler is
\* installed: sigint_handler runs at once: keep_running = 0;
sigint_handler ==
    /\ signals < MaxSignals
    /\ app_pc \notin {"sigaction", "exited"}
    /\ rd_pc["r1"] \in {"idle", "done"}
    /\ keep_running' = 0
    /\ signals' = signals + 1
    /\ UNCHANGED <<app_pc, current_led_state, led_fd, led_last, retval, waitq, task_state,
                   sig_pending, lineVars, isrVars, timerVars, cbVars, readVars, pollVars,
                   flagVars, statusVars, lifeVars>>

\* the poller is started on a bound driver whose LED is on or off
InitPoller ==
    /\ InitEvent /\ InitRunning /\ InitApp
    /\ led_status \in {0, 1}
    /\ led_line = led_status
    /\ wr_pc = [w \in Writers |-> "idle"]
    /\ wr_val = [w \in Writers |-> 0]
    /\ wr_arg = [w \in Writers |-> 0]
    /\ last_store = [buf |-> <<>>, err |-> "none", parsed |-> FALSE]
    /\ show_ret = <<>>
    /\ ulong_bits = 64
    /\ text = <<"1">>

(***************************************************************************)
(* The specifications.  The event pipeline and the attribute share no      *)
(* state, so each is explored on its own; the readiness query changes      *)
(* nothing the pipeline or a reader looks at, and is explored beside the   *)
(* pipeline and one reader.                                                *)
(***************************************************************************)
\* the steps of a read that is under way
ReadStep(r) ==
    \/ ReadPrepare(r)
    \/ ReadCond(r)
    \/ ReadSchedule(r)
    \/ ReadFinish(r)
    \/ ReadInterrupted(r)
    \/ ReadClear(r)
    \/ ReadCopyOk(r)
    \/ ReadCopyFault(r)

\* the sensor line, the interrupt handler, the timer and its callback
Pipeline ==
    \/ FallingEdge
    \/ RisingEdge
    \/ button_isr
    \/ Tick
    \/ debounce_timer_callback

Next ==
    \/ Pipeline
    \/ \E r \in Readers : gpio_button_read(r)
    \/ \E r \in Readers : SignalDeliver(r)

Spec == Init /\ [][Next]_vars

NextPoll ==
    \/ Pipeline
    \/ gpio_button_read("r1")
    \/ SignalDeliver("r1")
    \/ \E p \in Pollers : gpio_button_poll(p)

PollSpec == Init /\ [][NextPoll]_vars

\* one process writing and reading the attribute
NextStatus ==
    \/ led_status_store("w1")
    \/ led_status_show

StatusSpec == InitAnyText /\ [][NextStatus]_vars

\* two processes writing "0" and "1" to the attribute at the same time
NextWriters ==
    \/ \E w \in Writers : led_status_store(w)
    \/ led_status_show

WritersSpec == Init /\ [][NextWriters]_vars

\* the life of the driver from gpio_probe to gpio_remove, with the sensor
\* line, the interrupt handler and the timer at work meanwhile
NextLife ==
    \/ Pipeline
    \/ gpio_probe
    \/ gpio_remove

LifeSpec == InitLife /\ [][NextLife]_vars

\* the button poller beside the pipeline; SIGINT reaches it in user mode
\* (sigint_handler) or inside the blocking read (SignalDeliver)
NextPoller ==
    \/ Pipeline
    \/ main
    \/ ReadStep("r1")
    \/ SignalDeliver("r1")
    \/ sigint_handler

PollerSpec == InitPoller /\ [][NextPoller]_vars

(***************************************************************************)
(* Fairness: a reader inside the read keeps running, the interrupt handler *)
(* and the timer callback run to their end, and time passes.  Nothing      *)
(* obliges the environment to press the button, to send a signal or to     *)
(* call read again.                                                        *)
(***************************************************************************)
FairSpec ==
    /\ Spec
    /\ \A r \in Readers : WF_vars(ReadStep(r))
    /\ WF_vars(button_isr)
    /\ WF_vars(Tick)
    /\ WF_vars(debounce_timer_callback)

\* the poller keeps running, in user mode and inside the read
FairPollerSpec ==
    /\ PollerSpec
    /\ WF_vars(main)
    /\ WF_vars(ReadStep("r1"))
    /\ WF_vars(button_isr)
    /\ WF_vars(Tick)
    /\ WF_vars(debounce_timer_callback)

\* gpio_probe runs to its end as well; nothing obliges anyone to unbind the driver
FairLifeSpec ==
    /\ LifeSpec
    /\ WF_vars(gpio_probe)
    /\ WF_vars(button_isr)
    /\ WF_vars(Tick)
    /\ WF_vars(debounce_timer_callback)

(***************************************************************************)
(* The claims about the event pipeline.                                    *)
(***************************************************************************)

\* C1: exactly-once consumption: the number of tokens returned by blocking
\* reads never exceeds the number of times the Confirmer set PendingEvent.
C1_ExactlyOnce == tokens <= sets

\* a reader inside the wait of the blocking read
Waiting(r) == rd_pc[r] \in {"prepare", "cond", "schedule"}

\* C2: no lost wakeup: when PendingEvent is set while a reader is inside the
\* wait, that reader returns the token '1' or is cancelled, or another reader
\* returns the token.
C2_NoLostWakeup ==
    \A r \in Readers :
        (Waiting(r) /\ button_event_flag = 1)
            ~> (\/ rd_ret[r] \in {"1", "ERESTARTSYS"}
                \/ \E q \in Readers \ {r} : rd_ret[q] = "1")

\* The wake-up itself is not lost: with the flag set, a reader inside the wait
\* leaves the wait, or another reader takes the event.
WaiterLeavesWait ==
    \A r \in Readers :
        (Waiting(r) /\ button_event_flag = 1) ~> (~Waiting(r) \/ button_event_flag = 0)

\* a step of a reader on the waiting and cancellation path leaves the flag
\* alone, and the interrupted outcome is returned from that path only
C3_Step ==
    \A r \in Readers :
        /\ (rd_pc[r] \in {"prepare", "cond", "schedule", "intr"} /\ rd_pc'[r] # rd_pc[r])
              => button_event_flag' = button_event_flag
        /\ (rd_ret'[r] = "ERESTARTSYS" /\ rd_ret[r] # "ERESTARTSYS")
              => rd_pc[r] = "intr"

\* C3: a cancelled read returns the interrupted outcome and leaves
\* PendingEvent as it was: a read that returns interrupted never clears the
\* flag, so an event that became pending around the cancellation stays pending.
C3_CancelKeepsEvent == [][C3_Step]_vars

\* a read was cancelled while an event was pending, and the event still is
C3_Witness == \E r \in Readers : rd_ret[r] = "ERESTARTSYS" /\ button_event_flag = 1

\* what one readiness query does
C4_Step ==
    \A p \in Pollers :
        gpio_button_poll(p) =>
            /\ button_event_flag' = button_event_flag
            /\ debounce_active' = debounce_active
            /\ (poll_ret'[p] = "POLLIN") <=> (button_event_flag = 1)

\* C4: the readiness query reports ready exactly when PendingEvent is true at
\* the moment of the query and changes neither PendingEvent nor DebounceState,
\* however often it is made before the event is consumed.
C4_PollIsPure == [][C4_Step]_vars

\* a poll reported ready and the event is still pending
C4_Witness == \E p \in Pollers : poll_ret[p] = "POLLIN" /\ button_event_flag = 1 /\ sets = 1

\* at most one Confirmer is outstanding, each arming has one Confirmer run,
\* and each run produces at most one event
C5_Inv ==
    /\ armings - confirms \in {0, 1}
    /\ (armings - confirms = 1) <=> (timer_pending \/ cb_pc # "idle")
    /\ ~(timer_pending /\ cb_pc # "idle")
    /\ (timer_pending \/ cb_pc # "idle") => debounce_active = 1
    /\ sets <= armings
    /\ sets <= confirms + (IF cb_pc \in {"wake", "reset"} THEN 1 ELSE 0)

\* the handler entered while Armed returns at once and changes nothing
C5_Step ==
    (irq_pending /\ ~irq_pending' /\ debounce_active # 0)
        => /\ UNCHANGED <<timerVars, cbVars, armings, flagVars>>
           /\ isr_pc' = "idle"

C10_SingleSlot ==
    \A r \in Readers :
        /\ (rd_pc[r] = "done" /\ rd_ret[r] = "1" /\ r \in stale) => button_event_flag = 0
        /\ rd_pc[r] \in {"finish", "clear"} => r \notin stale

\* two presses were confirmed, r1 got one token for them, and its next read sleeps
C10_Witness ==
    /\ sets = 2
    /\ tokens = 1
    /\ rd_pc["r1"] = "schedule"
    /\ task_state["r1"] = "INTERRUPTIBLE"
    /\ "r1" \in stale
    /\ rd_pc["r2"] = "idle"

\* the debounce delay in jiffies
DebounceJiffies == msecs_to_jiffies(DEBOUNCE_MS)

\* the Confirmer starts DEBOUNCE_MS after the arming, a queued timer's expiry
\* never moves away, and no Confirmer run is without its arming
C15_Step ==
    /\ (cb_pc = "idle" /\ cb_pc' # "idle")
          => /\ elapsed = DebounceJiffies
             /\ elapsed * 1000 = DEBOUNCE_MS * HZ
    /\ (timer_pending /\ timer_pending') => timer_left' <= timer_left
    /\ confirms' <= armings'

\* C15: confirmation time is measured from the first transition of a window:
\* while the timer is queued the time since the arming and the time left add
\* up to 50 ms, so that the Confirmer runs once, 50 ms after the arming, and
\* no later transition postpones its expiry.
C15_MeasuredFromFirstEdge ==
    /\ [](timer_pending => elapsed + timer_left = DebounceJiffies)
    /\ [][C15_Step]_vars

\* two edges came in one window, the second was handled while Armed, and the
\* Confirmer has run 50 ms after the first
C15_Witness ==
    /\ edges = 2
    /\ armings = 1
    /\ confirms = 1
    /\ ~irq_pending
    /\ isr_pc = "idle"
    /\ ~timer_pending
    /\ elapsed = DebounceJiffies

\* C19: an event is consumed only when it is delivered: a read that changed
\* PendingEvent from true to false returns the token '1', so a read that
\* returns an error has left PendingEvent as it was.
C19_ConsumedOnlyWhenDelivered ==
    \A r \in Readers : (rd_pc[r] = "done" /\ r \in took) => rd_ret[r] = "1"

(***************************************************************************)
(* The claims about the status attribute.                                  *)
(***************************************************************************)
\* a call of led_status_store was made
Stored == last_store.err # "none"
Accepted == last_store.err = "OK"

\* the input without one trailing line terminator
Chopped(buf) ==
    IF buf[Len(buf)] = LF THEN SubSeq(buf, 1, Len(buf) - 1) ELSE buf

\* the longest prefix of s that holds no NUL byte
Visible(s) ==
    CHOOSE t \in {SubSeq(s, 1, n) : n \in 0..Len(s)} :
        /\ \A i \in 1..Len(t) : t[i] # NUL
        /\ Len(t) = Len(s) \/ s[Len(t) + 1] = NUL

\* t is: an optional '+', decimal digits ds, an optional line terminator
NumeralOf(t, ds) ==
    /\ ds # <<>>
    /\ \A i \in 1..Len(ds) : IsDigit(ds[i])
    /\ \E p \in {<<>>, <<"+">>}, nl \in {<<>>, <<LF>>} : t = p \o ds \o nl

Numerals(t) == {ds \in {SubSeq(t, a, b) : a, b \in 1..Len(t)} : NumeralOf(t, ds)}

\* t is a numeral of value 0 or 1: zeros, then one 0 or 1
ZeroOrOne(t) ==
    \E ds \in Numerals(t) :
        /\ ds[Len(ds)] \in {"0", "1"}
        /\ \A i \in 1..(Len(ds) - 1) : ds[i] = "0"

\* t is a numeral that does not fit unsigned long
OutOfRange(t, bits) ==
    \E ds \in Numerals(t) : Greater(Significant(ds), UMax(bits))

FourForms == {<<"0">>, <<"1">>, <<"0", LF>>, <<"1", LF>>}

\* C6 as stated: a write of at most 15 bytes is accepted if and only if it is
\* "0", "1", "0\n" or "1\n", and every other one is rejected with the
\* invalid-argument error.
C6_OnlyFourForms ==
    (Stored /\ Len(last_store.buf) <= 15) =>
        /\ Accepted <=> last_store.buf \in FourForms
        /\ ~Accepted => last_store.err = "EINVAL"

\* C6 amended: a write of at most 15 bytes is accepted if and only if, once
\* one trailing line terminator is removed, the text before the first NUL byte
\* is an optional '+', decimal digits of value 0 or 1 and an optional line
\* terminator; the four forms are among them.  A rejected one gets the
\* out-of-range error when that text is a numeral that does not fit unsigned
\* long, and the invalid-argument error otherwise.
C6_AcceptsNumeralZeroOrOne ==
    (Stored /\ Len(last_store.buf) <= 15) =>
        LET t == Visible(Chopped(last_store.buf))
        IN /\ Accepted <=> ZeroOrOne(t)
           /\ last_store.buf \in FourForms => Accepted
           /\ last_store.err = "ERANGE" <=> OutOfRange(t, ulong_bits)
           /\ last_store.err \in {"OK", "EINVAL", "ERANGE"}

\* "+1\n\n" was written and accepted
C6_Witness ==
    /\ last_store.buf = <<"+", "1", LF, LF>>
    /\ Accepted
    /\ wr_pc["w1"] = "idle"
    /\ led_status = 1

\* C7 as stated: a write longer than 15 bytes is rejected before parsing with
\* an error other than the invalid-argument error.
C7_OverflowError ==
    (Stored /\ Len(last_store.buf) > 15) =>
        /\ ~last_store.parsed
        /\ last_store.err \notin {"OK", "EINVAL"}

\* C7 amended: a write longer than 15 bytes is rejected before parsing, with
\* the invalid-argument error, the same error as malformed content gets; a
\* write of at most 15 bytes is parsed.
C7_OversizedIsInvalid ==
    Stored =>
        /\ Len(last_store.buf) > 15 => (~last_store.parsed /\ last_store.err = "EINVAL")
        /\ Len(last_store.buf) <= 15 => last_store.parsed

\* a 16-byte write of a well-formed numeral was rejected unparsed
C7_Witness ==
    /\ last_store.buf = Rep("0", 15) \o <<"1">>
    /\ last_store.err = "EINVAL"
    /\ ~last_store.parsed

\* a step that starts and ends with the writer outside the store changes
\* neither LedStatus nor the line, and a rejected write is such a step
C8_Step ==
    /\ (wr_pc["w1"] = "idle" /\ wr_pc'["w1"] = "idle")
          => UNCHANGED <<led_status, led_line>>
    /\ (wr_pc["w1"] = "idle" /\ last_store'.err \in {"EINVAL", "ERANGE"}
           /\ last_store' # last_store)
          => wr_pc'["w1"] = "idle"

\* C8: every write that returns an error (oversized, unparsable, or a value
\* other than 0 or 1) leaves LedStatus and the level of the output line
\* exactly as they were before the call.
C8_RejectedWriteChangesNothing == [][C8_Step]_vars

\* a write was rejected while the LED was on, and it is still on
C8_Witness ==
    /\ last_store.err \in {"EINVAL", "ERANGE"}
    /\ wr_pc["w1"] = "idle"
    /\ led_status = 1
    /\ led_line = 1

\* what a read of the attribute returns after the latest write
C9_Step ==
    led_status_show =>
        /\ \A v \in {"0", "1"} :
              (/\ wr_pc["w1"] = "idle"
               /\ Accepted
               /\ last_store.buf \in {<<v>>, <<v, LF>>})
                  => show_ret' = <<v, LF>>
        /\ ~Stored => show_ret' = <<"0", LF>>

\* C9: round trip: a read of the attribute after a completed accepted write of
\* "v" or "v\n" returns exactly "v\n", and a read before any write returns "0\n".
C9_RoundTrip == [][C9_Step]_vars

\* "1\n" was written, and then read back as "1\n"
C9_Witness ==
    /\ last_store.buf = <<"1", LF>>
    /\ Accepted
    /\ wr_pc["w1"] = "idle"
    /\ show_ret = <<"1", LF>>

(***************************************************************************)
(* The claims about the life cycle of the driver.                          *)
(***************************************************************************)
Reverse(q) == [i \in 1..Len(q) |-> q[Len(q) + 1 - i]]

\* C11: initialization rollback: when gpio_probe has reported failure, what it
\* released is what it had acquired, each resource once and in the reverse of
\* the acquisition order, and the driver is Running only if every acquisition
\* step succeeded.
C11_Rollback ==
    /\ life_pc = "failed" => released = Reverse(acquired)
    /\ life_pc = "running" => acquired = AcquisitionOrder

\* the resources as the shutdown order names them
Group(x) ==
    CASE x = "button" -> "sensor line"
      [] x = "led" -> "output line"
      [] x = "irq" -> "interrupt handler"
      [] x \in {"region", "cdev", "class", "devnode"} -> "event endpoint"
      [] x \in {"sysfsdev", "attr"} -> "status attribute"
      [] x = "timer" -> "debounce mechanism"

\* a sequence of resources as the sequence of their groups, each run of one
\* group counted once
RECURSIVE Groups(_)
Groups(q) ==
    IF q = <<>> THEN <<>>
    ELSE IF Len(q) > 1 /\ Group(q[1]) = Group(q[2]) THEN Groups(Tail(q))
    ELSE <<Group(q[1])>> \o Groups(Tail(q))

\* C12: shutdown order: when gpio_remove has returned, everything
\* initialization acquired has been released, once and in exactly the reverse
\* of the acquisition order: debounce mechanism, status attribute, event
\* endpoint, interrupt handler, output line, sensor line.
C12_ReverseTeardown ==
    life_pc = "removed" => Groups(released) = Reverse(Groups(acquired))

\* C17: no Confirmer run after teardown: debounce_timer_callback is never
\* inside its body unless the sensor line is held.
C17_NoRunAfterTeardown == cb_pc # "idle" => "button" \in Held

\* C18: the Edge Detector never arms the Debounce Confirmer before the
\* debounce mechanism is set up: whenever button_isr executes mod_timer,
\* timer_setup has been executed.
C18_ArmsOnlyReadyTimer ==
    [][(isr_pc = "arm" /\ isr_pc' = "idle") => TimerReady]_vars

\* the driver is being bound or is bound: gpio_probe has not failed and
\* gpio_remove has not been called
Bound ==
    life_pc \in {"probe_button", "probe_led", "probe_to_irq", "probe_request_irq",
                 "probe_region", "probe_cdev", "probe_class", "probe_devnode",
                 "probe_sysfsdev", "probe_attr", "probe_timer", "running"}

\* C14: every arming is followed by a Confirmer run that resets DebounceState:
\* Armed leads to Idle, a driver that is bound never remains Armed forever.
C14_ArmedLeadsToIdle == (debounce_active = 1) ~> (debounce_active = 0 \/ ~Bound)

\* Once gpio_probe has returned 0 with DebounceState Idle, Armed does lead to
\* Idle: from then on every arming finds the timer set up.
ArmedLeadsToIdleOnceRunning ==
    [](life_pc = "running" /\ debounce_active = 0
          => []((debounce_active = 1) ~> (debounce_active = 0)))

(***************************************************************************)
(* The claims about concurrent writers of the status attribute.            *)
(***************************************************************************)
\* C16: the output line mirrors LedStatus: LedStatus is 0 or 1, and whenever
\* no write of the attribute is in progress the level last driven on the
\* output line equals LedStatus, also after two concurrent writes of
\* different values.
C16_LineMirrorsStatus ==
    /\ led_status \in {0, 1}
    /\ (\A w \in Writers : wr_pc[w] = "idle") => led_line = led_status

(***************************************************************************)
(* The claims about the button poller.                                     *)
(***************************************************************************)
\* the poller has exited after having opened the status endpoint
ExitedAfterOpen == app_pc = "exited" /\ led_last # "none"

C20_ReactsToSigint == (signals > 0) ~> (app_pc = "exited")

=============================================================================
